---- MODULE Spec2Model ----
(***************************************************************************)
(* Verification model of gwrs (open-physics/gwrs).                         *)
(*                                                                         *)
(* Part 1: the segment interval algebra of src/src/segments/core.rs.       *)
(* A Segment is the struct { start: f64, end: f64 }.  The algebra only     *)
(* ever compares and copies its bounds (no float arithmetic is done on     *)
(* them), so the bounds are modelled by integers 0..MaxVal standing for    *)
(* finite, mutually comparable f64 values with that order.                 *)
(*                                                                         *)
(* The program state is a caller holding segments in slots; every step     *)
(* is one call of Segment::new, `&`, `|` or `-` whose operands are         *)
(* segments the caller already holds and whose result is stored back, so   *)
(* results feed later calls.                                               *)
(*                                                                         *)
(* Part 2: the indexed-series model of src/src/types/series.rs and         *)
(* src/src/types/array.rs (SeriesBuilder, Series arithmetic and its        *)
(* metadata/axis reconciliation); its definitions follow the segment       *)
(* part.                                                                   *)
(*                                                                         *)
(* Part 3: TimeSeriesBase and its builder, src/src/timeseries/core.rs,     *)
(* which wrap a Series and read its x0 / dx / axis as t0 / dt / times.     *)
(*                                                                         *)
(* Each part has its own specifications; while one runs, the variables     *)
(* of the other parts rest at their idle values.                           *)
(***************************************************************************)
EXTENDS Integers, FiniteSets, Sequences, TLC

\* Largest bound value a caller passes to Segment::new.
MaxVal == 3

\* Cap of the history counter gen (how many operator applications lie
\* behind a held segment); the counter saturates, it never blocks a call.
MaxGen == 2

VARIABLES
    seg,    \* seg[k]: the Segment the caller holds in slot k
    gen,    \* gen[k]: history counter, operator applications behind seg[k]
    call,   \* the last call: its name and its arguments
    res     \* the value the last call returned

segvars == <<seg, gen, call, res>>

VARIABLES
    builder,  \* the SeriesBuilder under construction (its eight fields)
    built,    \* what builder.build() returned, once it was called
    s_lhs,    \* left operand Series of the next/last arithmetic operation
    s_rhs,    \* right operand Series
    s_out,    \* the last Series arithmetic operation and its outcome
    pc        \* position of the Series caller: "idle", "computed", "aborted"

seriesvars == <<builder, built, s_lhs, s_rhs, s_out, pc>>

vars == <<segvars, seriesvars>>

\* Option<T>: None is the empty tuple, Some(x) the one-element tuple.
None == <<>>

Some(x) == <<x>>

\* The series part at rest (no builder touched, no series held).
SeriesIdle ==
    /\ builder = None
    /\ built = None
    /\ s_lhs = None
    /\ s_rhs = None
    /\ s_out = None
    /\ pc = "idle"

\* f64 values a caller passes in.
Values == 0..MaxVal

\* The caller's slots.
Slots == {1, 2}

\* f64::max / f64::min on comparable values.
f64_max(a, b) == IF a >= b THEN a ELSE b

f64_min(a, b) == IF a <= b THEN a ELSE b

\* struct Segment { start, end }: every value of the type, normalised or not.
Segment == [start : Values, end : Values]

\* #[derive(PartialEq)]: field-wise equality.
Segment_eq(s, t) == s.start = t.start /\ s.end = t.end

\* A plausible slip of Segment::new: the swap is forgotten.
Segment_new_noswap(start, end) == [start |-> start, end |-> end]

\* Segment::new
Segment_new(start, end) ==
    IF start > end
    THEN [start |-> end, end |-> start]
    ELSE [start |-> start, end |-> end]

\* Slips of Segment::contains:
\*  - the end is compared strictly (a half-open test at the upper bound);
Segment_contains_halfopen(self, other) ==
    self.start <= other.start /\ other.end < self.end

\*  - the test of the end is forgotten.
Segment_contains_startonly(self, other) ==
    self.start <= other.start

\* Segment::contains (segment containment)
Segment_contains(self, other) ==
    self.start <= other.start /\ other.end <= self.end

\* Segment::is_empty
Segment_is_empty(self) == self.start = self.end

\* Slips of `&`:
\*  - the overlap test is dropped, Segment::new normalises whatever is left;
Segment_bitand_nocheck(self, rhs) ==
    Segment_new(f64_max(self.start, rhs.start), f64_min(self.end, rhs.end))

\*  - the empty result is anchored at the left operand's start;
Segment_bitand_selfanchor(self, rhs) ==
    LET start == f64_max(self.start, rhs.start)
        end   == f64_min(self.end, rhs.end)
    IN  IF start >= end
        THEN Segment_new(self.start, self.start)
        ELSE Segment_new(start, end)

\*  - the overlap test is dropped and the struct is built literally;
Segment_bitand_literal(self, rhs) ==
    [start |-> f64_max(self.start, rhs.start),
     end   |-> f64_min(self.end, rhs.end)]

\*  - the empty result is anchored at the smaller end.
Segment_bitand_endanchor(self, rhs) ==
    LET start == f64_max(self.start, rhs.start)
        end   == f64_min(self.end, rhs.end)
    IN  IF start >= end
        THEN Segment_new(end, end)
        ELSE Segment_new(start, end)

\* impl BitAnd for Segment
Segment_bitand(self, rhs) ==
    LET start == f64_max(self.start, rhs.start)
        end   == f64_min(self.end, rhs.end)
    IN  IF start >= end
        THEN Segment_new(start, start)
        ELSE Segment_new(start, end)

\* A slip of `|`: the end is taken from the left operand only.
Segment_bitor_selfend(self, rhs) ==
    Segment_new(f64_min(self.start, rhs.start), self.end)

\* impl BitOr for Segment
Segment_bitor(self, rhs) ==
    LET start == f64_min(self.start, rhs.start)
        end   == f64_max(self.end, rhs.end)
    IN  Segment_new(start, end)

\* Slips of `-`:
\*  - the no-overlap test uses strict comparisons;
Segment_sub_strict(self, rhs) ==
    IF self.end < rhs.start \/ rhs.end < self.start
    THEN self
    ELSE IF rhs.start <= self.start /\ self.end <= rhs.end
    THEN Segment_new(self.start, self.start)
    ELSE IF self.start < rhs.start /\ rhs.start < self.end
    THEN Segment_new(self.start, rhs.start)
    ELSE IF rhs.start < self.start /\ self.start < rhs.end /\ rhs.end < self.end
    THEN Segment_new(rhs.end, self.end)
    ELSE Segment_new(self.start, self.start)

\*  - the covered case is anchored at rhs.start;
Segment_sub_rhsanchor(self, rhs) ==
    IF self.end <= rhs.start \/ rhs.end <= self.start
    THEN self
    ELSE IF rhs.start <= self.start /\ self.end <= rhs.end
    THEN Segment_new(rhs.start, rhs.start)
    ELSE IF self.start < rhs.start /\ rhs.start < self.end
    THEN Segment_new(self.start, rhs.start)
    ELSE IF rhs.start < self.start /\ self.start < rhs.end /\ rhs.end < self.end
    THEN Segment_new(rhs.end, self.end)
    ELSE Segment_new(self.start, self.start)

\*  - the third test also asks that rhs runs up to or past self's end, so
\*    an rhs strictly inside self falls through to the last line;
Segment_sub_endonly(self, rhs) ==
    IF self.end <= rhs.start \/ rhs.end <= self.start
    THEN self
    ELSE IF rhs.start <= self.start /\ self.end <= rhs.end
    THEN Segment_new(self.start, self.start)
    ELSE IF self.start < rhs.start /\ rhs.start < self.end /\ self.end <= rhs.end
    THEN Segment_new(self.start, rhs.start)
    ELSE IF rhs.start < self.start /\ self.start < rhs.end /\ rhs.end < self.end
    THEN Segment_new(rhs.end, self.end)
    ELSE Segment_new(self.start, self.start)

\*  - the third test keeps the part after rhs instead of the part before it;
Segment_sub_tail(self, rhs) ==
    IF self.end <= rhs.start \/ rhs.end <= self.start
    THEN self
    ELSE IF rhs.start <= self.start /\ self.end <= rhs.end
    THEN Segment_new(self.start, self.start)
    ELSE IF self.start < rhs.start /\ rhs.start < self.end
    THEN Segment_new(rhs.start, self.end)
    ELSE IF rhs.start < self.start /\ self.start < rhs.end /\ rhs.end < self.end
    THEN Segment_new(rhs.end, self.end)
    ELSE Segment_new(self.start, self.start)

\*  - the fourth test returns the covered part instead of the remainder;
Segment_sub_covered(self, rhs) ==
    IF self.end <= rhs.start \/ rhs.end <= self.start
    THEN self
    ELSE IF rhs.start <= self.start /\ self.end <= rhs.end
    THEN Segment_new(self.start, self.start)
    ELSE IF self.start < rhs.start /\ rhs.start < self.end
    THEN Segment_new(self.start, rhs.start)
    ELSE IF rhs.start < self.start /\ self.start < rhs.end /\ rhs.end < self.end
    THEN Segment_new(self.start, rhs.end)
    ELSE Segment_new(self.start, self.start)

\*  - the third test returns self uncut;
Segment_sub_uncut(self, rhs) ==
    IF self.end <= rhs.start \/ rhs.end <= self.start
    THEN self
    ELSE IF rhs.start <= self.start /\ self.end <= rhs.end
    THEN Segment_new(self.start, self.start)
    ELSE IF self.start < rhs.start /\ rhs.start < self.end
    THEN self
    ELSE IF rhs.start < self.start /\ self.start < rhs.end /\ rhs.end < self.end
    THEN Segment_new(rhs.end, self.end)
    ELSE Segment_new(self.start, self.start)

\*  - the last line keeps the part after rhs.
Segment_sub_fallbacktail(self, rhs) ==
    IF self.end <= rhs.start \/ rhs.end <= self.start
    THEN self
    ELSE IF rhs.start <= self.start /\ self.end <= rhs.end
    THEN Segment_new(self.start, self.start)
    ELSE IF self.start < rhs.start /\ rhs.start < self.end
    THEN Segment_new(self.start, rhs.start)
    ELSE IF rhs.start < self.start /\ self.start < rhs.end /\ rhs.end < self.end
    THEN Segment_new(rhs.end, self.end)
    ELSE Segment_new(rhs.end, self.end)

\* impl Sub for Segment
Segment_sub(self, rhs) ==
    IF self.end <= rhs.start \/ rhs.end <= self.start
    THEN self
    ELSE IF rhs.start <= self.start /\ self.end <= rhs.end
    THEN Segment_new(self.start, self.start)
    ELSE IF self.start < rhs.start /\ rhs.start < self.end
    THEN Segment_new(self.start, rhs.start)
    ELSE IF rhs.start < self.start /\ self.start < rhs.end /\ rhs.end < self.end
    THEN Segment_new(rhs.end, self.end)
    ELSE Segment_new(self.start, self.start)

\* impl Sub for Segment: which of its five returns is taken.
Segment_sub_branch(self, rhs) ==
    IF self.end <= rhs.start \/ rhs.end <= self.start
    THEN "apart"
    ELSE IF rhs.start <= self.start /\ self.end <= rhs.end
    THEN "covered"
    ELSE IF self.start < rhs.start /\ rhs.start < self.end
    THEN "head"
    ELSE IF rhs.start < self.start /\ self.start < rhs.end /\ rhs.end < self.end
    THEN "tail"
    ELSE "fallback"

\* History counter of a result computed from slots i and j (saturating).
NextGen(i, j) ==
    LET g == IF gen[i] >= gen[j] THEN gen[i] ELSE gen[j]
    IN  IF g < MaxGen THEN g + 1 ELSE MaxGen

(***************************************************************************)
(* The caller.                                                             *)
(***************************************************************************)

\* Both slots hold a segment made by Segment::new; slot 1 was made last.
SegmentInit ==
    \E a \in Values, b \in Values, c \in Values, d \in Values :
        /\ seg = (1 :> Segment_new(a, b)) @@ (2 :> Segment_new(c, d))
        /\ gen = (1 :> 0) @@ (2 :> 0)
        /\ call = [op |-> "new", a |-> a, b |-> b]
        /\ res = Segment_new(a, b)
        /\ SeriesIdle

\* seg[k] = Segment::new(a, b)
CallNew ==
    \E k \in Slots, a \in Values, b \in Values :
        /\ res' = Segment_new(a, b)
        /\ call' = [op |-> "new", a |-> a, b |-> b]
        /\ seg' = [seg EXCEPT ![k] = res']
        /\ gen' = [gen EXCEPT ![k] = 0]
        /\ UNCHANGED seriesvars

\* seg[k] = seg[i] & seg[j]
CallBitAnd ==
    \E i \in Slots, j \in Slots, k \in Slots :
        /\ res' = Segment_bitand(seg[i], seg[j])
        /\ call' = [op |-> "bitand", self |-> seg[i], rhs |-> seg[j]]
        /\ seg' = [seg EXCEPT ![k] = res']
        /\ gen' = [gen EXCEPT ![k] = NextGen(i, j)]
        /\ UNCHANGED seriesvars

\* seg[k] = seg[i] | seg[j]
CallBitOr ==
    \E i \in Slots, j \in Slots, k \in Slots :
        /\ res' = Segment_bitor(seg[i], seg[j])
        /\ call' = [op |-> "bitor", self |-> seg[i], rhs |-> seg[j]]
        /\ seg' = [seg EXCEPT ![k] = res']
        /\ gen' = [gen EXCEPT ![k] = NextGen(i, j)]
        /\ UNCHANGED seriesvars

\* seg[k] = seg[i] - seg[j]
CallSub ==
    \E i \in Slots, j \in Slots, k \in Slots :
        /\ res' = Segment_sub(seg[i], seg[j])
        /\ call' = [op |-> "sub", self |-> seg[i], rhs |-> seg[j]]
        /\ seg' = [seg EXCEPT ![k] = res']
        /\ gen' = [gen EXCEPT ![k] = NextGen(i, j)]
        /\ UNCHANGED seriesvars

\* seg[i].contains(&seg[j]): a query, the held segments stay as they are.
CallContains ==
    \E i \in Slots, j \in Slots :
        /\ call' = [op |-> "contains", self |-> seg[i], other |-> seg[j],
                    ret |-> Segment_contains(seg[i], seg[j])]
        /\ UNCHANGED <<seg, gen, res>>
        /\ UNCHANGED seriesvars

SegmentNext ==
    \/ CallNew
    \/ CallBitAnd
    \/ CallBitOr
    \/ CallSub
    \/ CallContains

SegmentSpec == SegmentInit /\ [][SegmentNext]_vars

\* The last call was the binary operator op.
Called(op) == call.op = op

(***************************************************************************)
(* Segment algebra: properties of a call's result, read off the state      *)
(* right after the call (call = what was called, res = what it returned).  *)
(***************************************************************************)

\* rhs lies strictly inside self.
StrictlyInside(self, rhs) == self.start < rhs.start /\ rhs.end < self.end

\* C1: for all a and b, Segment::new(a, b) returns a segment (never fails)
\* that equals Segment::new(b, a) and has start = min(a, b), end = max(a, b).
C1_NewNormalizes ==
    Called("new") =>
        /\ res \in Segment
        /\ Segment_eq(res, Segment_new(call.b, call.a))
        /\ res.start = f64_min(call.a, call.b)
        /\ res.end = f64_max(call.a, call.b)

\* Segment::new was called with its arguments in reverse order.
C1_Witness == Called("new") /\ call.a > call.b /\ res.start = call.b

\* C2: every segment obtained by any finite sequence of Segment::new, `&`,
\* `|` and `-` from segments made by Segment::new has start <= end.
C2_StartLeEnd ==
    /\ res.start <= res.end
    /\ \A k \in Slots : seg[k].start <= seg[k].end

\* A difference of two segments that are themselves results of operators
\* was taken, and its result went through two or more operator applications.
C2_Witness ==
    /\ Called("sub")
    /\ \E k \in Slots : gen[k] = MaxGen /\ seg[k] = res /\ ~Segment_is_empty(res)
    /\ ~Segment_is_empty(call.rhs)

\* C3: s1 & s2 is [max(starts), min(ends)) when max(starts) < min(ends),
\* and otherwise the empty segment [m, m) with m = max(starts).
C3_Intersection ==
    Called("bitand") =>
        LET m == f64_max(call.self.start, call.rhs.start)
            e == f64_min(call.self.end, call.rhs.end)
        IN  IF m < e
            THEN res.start = m /\ res.end = e
            ELSE res.start = m /\ res.end = m

\* Two disjoint, non-touching segments were intersected, the later one on
\* the right.
C3_Witness ==
    /\ Called("bitand")
    /\ call.self.end < call.rhs.start
    /\ ~Segment_is_empty(call.self)
    /\ Segment_is_empty(res)

\* C4: intersection is commutative, (s1 & s2) == (s2 & s1), disjoint and
\* empty operands included.
C4_IntersectionCommutes ==
    Called("bitand") =>
        Segment_eq(res, Segment_bitand(call.rhs, call.self))

\* Two disjoint segments with different starts were intersected.
C4_Witness ==
    /\ Called("bitand")
    /\ call.rhs.end < call.self.start
    /\ ~Segment_is_empty(call.rhs)
    /\ ~Segment_is_empty(call.self)

\* C5: s1 | s2 is the total span [min(starts), max(ends)), equals s2 | s1,
\* and contains both s1 and s2, whether or not they overlap.
C5_Union ==
    Called("bitor") =>
        /\ res.start = f64_min(call.self.start, call.rhs.start)
        /\ res.end = f64_max(call.self.end, call.rhs.end)
        /\ Segment_eq(res, Segment_bitor(call.rhs, call.self))
        /\ Segment_contains(res, call.self)
        /\ Segment_contains(res, call.rhs)

\* Two disjoint segments with a gap between them were united, the later
\* one on the right.
C5_Witness ==
    /\ Called("bitor")
    /\ call.self.end < call.rhs.start
    /\ ~Segment_is_empty(call.self)
    /\ ~Segment_is_empty(call.rhs)
    /\ res.start = call.self.start /\ res.end = call.rhs.end

\* C6: whenever self.start < rhs.start < self.end, self - rhs is
\* [self.start, rhs.start), both when rhs runs past self's end and when rhs
\* lies strictly inside self.
C6_SubKeepsHead ==
    (Called("sub") /\ call.self.start < call.rhs.start
                   /\ call.rhs.start < call.self.end) =>
        /\ res.start = call.self.start
        /\ res.end = call.rhs.start

\* A difference whose rhs starts inside self and ends before self's end.
C6_Witness ==
    /\ Called("sub")
    /\ call.self.start < call.rhs.start
    /\ call.rhs.start < call.rhs.end
    /\ call.rhs.end < call.self.end

\* C7 as stated: when rhs lies strictly inside self, self - rhs is the
\* empty segment anchored at self.start.
C7_AsStated ==
    (Called("sub") /\ StrictlyInside(call.self, call.rhs)) =>
        /\ res.start = call.self.start
        /\ Segment_is_empty(res)

\* C7 amended: when rhs lies strictly inside self, self - rhs is anchored
\* at self.start and is the non-empty head [self.start, rhs.start), never
\* the empty segment and never the tail after rhs.
C7_InsideKeepsHead ==
    (Called("sub") /\ StrictlyInside(call.self, call.rhs)) =>
        /\ Segment_eq(res, Segment_new(call.self.start, call.rhs.start))
        /\ ~Segment_is_empty(res)
        /\ res.end <= call.rhs.start

\* A difference with a non-empty rhs strictly inside self.
C7_Witness ==
    /\ Called("sub")
    /\ StrictlyInside(call.self, call.rhs)
    /\ ~Segment_is_empty(call.rhs)
    /\ ~Segment_is_empty(res)

\* C8: when self and rhs do not overlap (self.end <= rhs.start or
\* rhs.end <= self.start, touching endpoints included), self - rhs is self
\* with both bounds unchanged.
C8_SubNoOverlap ==
    (Called("sub") /\ (\/ call.self.end <= call.rhs.start
                       \/ call.rhs.end <= call.self.start)) =>
        Segment_eq(res, call.self)

\* A difference of two non-empty segments that touch at one endpoint.
C8_Witness ==
    /\ Called("sub")
    /\ call.self.end = call.rhs.start
    /\ ~Segment_is_empty(call.self)
    /\ ~Segment_is_empty(call.rhs)

\* C9: whenever rhs fully contains self (rhs.start <= self.start and
\* self.end <= rhs.end, rhs == self included), self - rhs is the empty
\* segment [self.start, self.start).
C9_SubCovered ==
    (Called("sub") /\ call.rhs.start <= call.self.start
                   /\ call.self.end <= call.rhs.end) =>
        /\ res.start = call.self.start
        /\ res.end = call.self.start

\* A difference whose rhs starts before and ends after a non-empty self.
C9_Witness ==
    /\ Called("sub")
    /\ call.rhs.start < call.self.start
    /\ call.self.end < call.rhs.end
    /\ ~Segment_is_empty(call.self)

\* C10: whenever rhs.start < self.start < rhs.end < self.end, self - rhs
\* is [rhs.end, self.end).
C10_SubKeepsTail ==
    (Called("sub") /\ call.rhs.start < call.self.start
                   /\ call.self.start < call.rhs.end
                   /\ call.rhs.end < call.self.end) =>
        /\ res.start = call.rhs.end
        /\ res.end = call.self.end

\* A difference whose rhs overlaps the start of self.
C10_Witness ==
    /\ Called("sub")
    /\ call.rhs.start < call.self.start
    /\ call.self.start < call.rhs.end
    /\ call.rhs.end < call.self.end
    /\ res.start = call.rhs.end

\* C11 as stated: contains answers point containment, true iff
\* start <= value < end, so a point equal to end is not contained.  The
\* only contains the code has takes a Segment; a point v is handed to it
\* as the degenerate segment Segment::new(v, v).
C11_AsStated ==
    (Called("contains") /\ Segment_is_empty(call.other)) =>
        (call.ret <=> (/\ call.self.start <= call.other.start
                       /\ call.other.start < call.self.end))

\* C11 amended: contains takes a segment; for a point v given as
\* Segment::new(v, v) it is true iff start <= v <= end, so a point equal to
\* end is reported as contained.
C11_PointAsSegment ==
    (Called("contains") /\ Segment_is_empty(call.other)) =>
        (call.ret <=> (/\ call.self.start <= call.other.start
                       /\ call.other.start <= call.self.end))

\* contains was asked about the point at the end of a non-empty segment
\* and answered true.
C11_Witness ==
    /\ Called("contains")
    /\ Segment_is_empty(call.other)
    /\ ~Segment_is_empty(call.self)
    /\ call.other.start = call.self.end
    /\ call.ret

\* C12: contains is true iff self.start <= other.start and
\* other.end <= self.end; hence, for segments built by Segment::new, an
\* empty segment e contains o only if o == e.
C12_ContainsSegment ==
    Called("contains") =>
        /\ call.ret <=> (/\ call.self.start <= call.other.start
                         /\ call.other.end <= call.self.end)
        /\ (Segment_is_empty(call.self) /\ call.ret) =>
               Segment_eq(call.other, call.self)

\* An empty segment was asked whether it contains itself and said yes, and
\* (in another slot) a non-empty segment is held.
C12_Witness ==
    /\ Called("contains")
    /\ Segment_is_empty(call.self)
    /\ Segment_eq(call.other, call.self)
    /\ call.ret
    /\ \E k \in Slots : ~Segment_is_empty(seg[k])

\* C27: the difference d = self - rhs is sound: self contains d, and
\* d & rhs is an empty segment.
C27_SubSound ==
    Called("sub") =>
        /\ Segment_contains(call.self, res)
        /\ Segment_is_empty(Segment_bitand(res, call.rhs))

\* A difference that cut a non-empty part off self and left a non-empty
\* part.
C27_Witness ==
    /\ Called("sub")
    /\ ~Segment_is_empty(res)
    /\ ~Segment_eq(res, call.self)
    /\ ~Segment_is_empty(Segment_bitand(call.self, call.rhs))

\* rhs starts where self starts and ends strictly inside self.
SameStartShorter(self, rhs) ==
    /\ rhs.start = self.start
    /\ self.start < rhs.end
    /\ rhs.end < self.end

\* C28: the last line of the difference is reached exactly when
\* rhs.start == self.start and self.start < rhs.end < self.end, and the
\* difference is then the empty segment [self.start, self.start).
C28_Fallback ==
    Called("sub") =>
        /\ Segment_sub_branch(call.self, call.rhs) = "fallback"
             <=> SameStartShorter(call.self, call.rhs)
        /\ SameStartShorter(call.self, call.rhs) =>
             /\ res.start = call.self.start
             /\ res.end = call.self.start

\* A difference whose rhs is a proper prefix of self, e.g. [0,2) - [0,1),
\* that came out empty.
C28_Witness ==
    /\ Called("sub")
    /\ SameStartShorter(call.self, call.rhs)
    /\ Segment_sub_branch(call.self, call.rhs) = "fallback"
    /\ Segment_is_empty(res)
    /\ ~Segment_is_empty(call.rhs)

(***************************************************************************)
(* A caller intersecting three segments in both groupings.                 *)
(***************************************************************************)

\* Nothing computed yet.
NoResult == [ab |-> None, ab_c |-> None, bc |-> None, a_bc |-> None]

\* let a = Segment::new(..); let b = ...; let c = ...
TripleInit ==
    /\ \E a1 \in Values, a2 \in Values, b1 \in Values, b2 \in Values,
          c1 \in Values, c2 \in Values :
        seg = <<Segment_new(a1, a2), Segment_new(b1, b2), Segment_new(c1, c2)>>
    /\ gen = (1 :> 0) @@ (2 :> 0)
    /\ call = [op |-> "new", a |-> 0, b |-> 0]
    /\ res = NoResult
    /\ SeriesIdle

TripleFrame == UNCHANGED <<seg, gen, seriesvars>>

\* let ab = a & b
Triple_ab ==
    /\ res.ab = None
    /\ res' = [res EXCEPT !.ab = Some(Segment_bitand(seg[1], seg[2]))]
    /\ call' = [op |-> "bitand", self |-> seg[1], rhs |-> seg[2]]
    /\ TripleFrame

\* let ab_c = ab & c
Triple_ab_c ==
    /\ res.ab # None
    /\ res.ab_c = None
    /\ res' = [res EXCEPT !.ab_c = Some(Segment_bitand(res.ab[1], seg[3]))]
    /\ call' = [op |-> "bitand", self |-> res.ab[1], rhs |-> seg[3]]
    /\ TripleFrame

\* let bc = b & c
Triple_bc ==
    /\ res.bc = None
    /\ res' = [res EXCEPT !.bc = Some(Segment_bitand(seg[2], seg[3]))]
    /\ call' = [op |-> "bitand", self |-> seg[2], rhs |-> seg[3]]
    /\ TripleFrame

\* let a_bc = a & bc
Triple_a_bc ==
    /\ res.bc # None
    /\ res.a_bc = None
    /\ res' = [res EXCEPT !.a_bc = Some(Segment_bitand(seg[1], res.bc[1]))]
    /\ call' = [op |-> "bitand", self |-> seg[1], rhs |-> res.bc[1]]
    /\ TripleFrame

TripleNext ==
    \/ Triple_ab
    \/ Triple_ab_c
    \/ Triple_bc
    \/ Triple_a_bc

TripleSpec == TripleInit /\ [][TripleNext]_vars

\* Both groupings have been computed.
BothGroupings == res.ab_c # None /\ res.a_bc # None

\* The largest of the three starts, the smallest of the three ends.
MaxStart == f64_max(f64_max(seg[1].start, seg[2].start), seg[3].start)

MinEnd == f64_min(f64_min(seg[1].end, seg[2].end), seg[3].end)

\* C29: intersection is associative, (a & b) & c == a & (b & c), both
\* being [M, max(M, min(a.end, b.end, c.end))) with M the largest start,
\* also when some pair is disjoint.
C29_AndAssociative ==
    BothGroupings =>
        /\ Segment_eq(res.ab_c[1], res.a_bc[1])
        /\ res.ab_c[1].start = MaxStart
        /\ res.ab_c[1].end = f64_max(MaxStart, MinEnd)

\* Both groupings were computed for three non-empty segments where a and b
\* are disjoint but each overlaps c.
C29_Witness ==
    /\ BothGroupings
    /\ \A k \in 1..3 : ~Segment_is_empty(seg[k])
    /\ Segment_is_empty(res.ab[1])
    /\ ~Segment_is_empty(res.bc[1])
    /\ ~Segment_is_empty(Segment_bitand(seg[1], seg[3]))
    /\ Segment_eq(res.ab_c[1], res.a_bc[1])

(***************************************************************************)
(* Part 2.  Quantity / Unit (crate astronomy, consumed interface).         *)
(*                                                                         *)
(* A Unit is { name, scale, dimensions }.  Scales are kept in hundredths   *)
(* (scale 1.0 is 100, the centimetre's 0.01 is 1) so that conversions of   *)
(* the values used here stay exact integers; dimensions are the exponents  *)
(* of <<Length, Time>>.  A Quantity on an axis is { value, unit } with     *)
(* value a sequence.  Of a data array only the number of elements is       *)
(* kept ({ value_len, unit }): its elements are produced by the            *)
(* collaborator's arithmetic and series.rs reads nothing of them but       *)
(* their count.                                                            *)
(***************************************************************************)

\* Largest number of samples of a value array.
MaxLen == 2

\* Largest start/step magnitude (in metres or seconds) put on an axis.
MaxStep == 2

\* Result<T, QuantityError>
Ok(x) == [kind |-> "Ok", val |-> x]

Err(e) == [kind |-> "Err", err |-> e]

\* Unit { name: "", scale: 1.0, dimensions: [] }
DIMENSIONLESS == [name |-> "", scale |-> 100, dims |-> <<0, 0>>]

METER == [name |-> "m", scale |-> 100, dims |-> <<1, 0>>]

CENTIMETER == [name |-> "cm", scale |-> 1, dims |-> <<1, 0>>]

SECOND == [name |-> "s", scale |-> 100, dims |-> <<0, 1>>]

\* Quantity::new
Quantity_new(value, unit) == [value |-> value, unit |-> unit]

\* Quantity::to: fails on a dimension mismatch, else rescales the values.
Quantity_to(q, unit) ==
    IF q.unit.dims # unit.dims
    THEN Err([variant |-> "IncompatibleUnits",
              from |-> q.unit.name, to |-> unit.name])
    ELSE Ok(Quantity_new(
             [i \in DOMAIN q.value |-> (q.value[i] * q.unit.scale) \div unit.scale],
             unit))

\* Shapes the collaborator's elementwise arithmetic combines: equal
\* lengths, or a single element spread over the other operand.
Broadcastable(n, m) == n = m \/ n = 1 \/ m = 1

Broadcast(n, m) == IF n = m THEN n ELSE IF n = 1 THEN m ELSE n

\* Product / quotient of two units.
Unit_mul(l, r) ==
    [name  |-> IF r.dims = <<0, 0>> THEN l.name
               ELSE IF l.dims = <<0, 0>> THEN r.name
               ELSE l.name \o "*" \o r.name,
     scale |-> (l.scale * r.scale) \div 100,
     dims  |-> <<l.dims[1] + r.dims[1], l.dims[2] + r.dims[2]>>]

Unit_div(l, r) ==
    [name  |-> IF r.dims = <<0, 0>> THEN l.name
               ELSE IF l.dims = r.dims THEN ""
               ELSE l.name \o "/" \o r.name,
     scale |-> (l.scale * 100) \div r.scale,
     dims  |-> <<l.dims[1] - r.dims[1], l.dims[2] - r.dims[2]>>]

\* A slip of the addition rule: units of one dimension are added, only
\* units of different dimensions are rejected.
Quantity_add_samedimension(l, r) ==
    IF l.unit.dims # r.unit.dims
    THEN Err([variant |-> "IncompatibleAddition",
              lhs |-> l.unit.name, rhs |-> r.unit.name])
    ELSE Ok([value_len |-> Broadcast(l.value_len, r.value_len), unit |-> l.unit])

\* Quantity + Quantity, Quantity - Quantity on data arrays: the units must
\* be the same unit; the result carries the left operand's unit.
Quantity_add(l, r) ==
    IF l.unit # r.unit
    THEN Err([variant |-> "IncompatibleAddition",
              lhs |-> l.unit.name, rhs |-> r.unit.name])
    ELSE Ok([value_len |-> Broadcast(l.value_len, r.value_len), unit |-> l.unit])

Quantity_sub(l, r) ==
    IF l.unit # r.unit
    THEN Err([variant |-> "IncompatibleArithmetic",
              lhs |-> l.unit.name, rhs |-> r.unit.name])
    ELSE Ok([value_len |-> Broadcast(l.value_len, r.value_len), unit |-> l.unit])

\* Quantity * Quantity (infallible) and Quantity / Quantity.
Quantity_mul(l, r) ==
    [value_len |-> Broadcast(l.value_len, r.value_len),
     unit |-> Unit_mul(l.unit, r.unit)]

Quantity_div(l, r) ==
    Ok([value_len |-> Broadcast(l.value_len, r.value_len),
        unit |-> Unit_div(l.unit, r.unit)])

(***************************************************************************)
(* GWArray (src/src/types/array.rs).                                       *)
(***************************************************************************)

\* GWArray::new; value is the number of elements of the value array.
GWArray_new(value, unit, name, epoch, channel) ==
    [quantity |-> [value_len |-> value,
                   unit |-> IF unit = None THEN DIMENSIONLESS ELSE unit[1]],
     name |-> name, epoch |-> epoch, channel |-> channel]

\* impl Add / Sub / Mul / Div for GWArray: metadata of the left operand.
GWArray_add(self, rhs) ==
    LET added_quantity == Quantity_add(self.quantity, rhs.quantity)
    IN  IF added_quantity.kind = "Err" THEN added_quantity
        ELSE Ok(GWArray_new(added_quantity.val.value_len,
                            Some(added_quantity.val.unit),
                            self.name, self.epoch, self.channel))

GWArray_sub(self, rhs) ==
    LET subtracted_quantity == Quantity_sub(self.quantity, rhs.quantity)
    IN  IF subtracted_quantity.kind = "Err" THEN subtracted_quantity
        ELSE Ok(GWArray_new(subtracted_quantity.val.value_len,
                            Some(subtracted_quantity.val.unit),
                            self.name, self.epoch, self.channel))

GWArray_mul(self, rhs) ==
    LET multiplied_quantity == Quantity_mul(self.quantity, rhs.quantity)
    IN  Ok(GWArray_new(multiplied_quantity.value_len,
                       Some(multiplied_quantity.unit),
                       self.name, self.epoch, self.channel))

GWArray_div(self, rhs) ==
    LET divided_quantity == Quantity_div(self.quantity, rhs.quantity)
    IN  IF divided_quantity.kind = "Err" THEN divided_quantity
        ELSE Ok(GWArray_new(divided_quantity.val.value_len,
                            Some(divided_quantity.val.unit),
                            self.name, self.epoch, self.channel))

(***************************************************************************)
(* SeriesBuilder and Series (src/src/types/series.rs).                     *)
(***************************************************************************)

\* Number of samples of the value array in test_series_creation_x0_dx.
TestSamples == 6

\* SeriesBuilder::new: every field None.
SeriesBuilder_new ==
    [value |-> None, unit |-> None, name |-> None, epoch |-> None,
     channel |-> None, x0 |-> None, dx |-> None, xindex |-> None]

\* Series::new_internal
Series_new_internal(array_data, x0, dx, xindex_cache) ==
    [array_data |-> array_data, x0 |-> x0, dx |-> dx,
     xindex_cache |-> xindex_cache]

\* The arithmetic progression start + i * step for i in 0..data_len.
x_values(start_value, converted_dx, data_len) ==
    [i \in 1..data_len |-> start_value + (i - 1) * converted_dx]

\* Slips of the start/step branch of build:
\*  - the step is used as given, without converting it to the start's unit;
derive_index_unconverted(start_quantity, step_quantity, data_len) ==
    IF Len(start_quantity.value) # 1 \/ Len(step_quantity.value) # 1
    THEN Err([variant |-> "MismatchError",
              msg |-> "x0 and dx must be single-value quantities"])
    ELSE IF start_quantity.unit.dims # step_quantity.unit.dims
    THEN Err([variant |-> "IncompatibleUnits",
              from |-> start_quantity.unit.name,
              to |-> step_quantity.unit.name])
    ELSE Ok(Some(Quantity_new(
             x_values(start_quantity.value[1], step_quantity.value[1], data_len),
             start_quantity.unit)))

\*  - the incompatible-units error names the step's unit first.
derive_index_namesswapped(start_quantity, step_quantity, data_len) ==
    IF Len(start_quantity.value) # 1 \/ Len(step_quantity.value) # 1
    THEN Err([variant |-> "MismatchError",
              msg |-> "x0 and dx must be single-value quantities"])
    ELSE IF start_quantity.unit.dims # step_quantity.unit.dims
    THEN Err([variant |-> "IncompatibleUnits",
              from |-> step_quantity.unit.name,
              to |-> start_quantity.unit.name])
    ELSE LET converted == Quantity_to(step_quantity, start_quantity.unit)
         IN  IF converted.kind = "Err" THEN converted
             ELSE Ok(Some(Quantity_new(
                      x_values(start_quantity.value[1],
                               converted.val.value[1], data_len),
                      start_quantity.unit)))

\*  - the dimensions are compared before the single-value test.
derive_index_unitsfirst(start_quantity, step_quantity, data_len) ==
    IF start_quantity.unit.dims # step_quantity.unit.dims
    THEN Err([variant |-> "IncompatibleUnits",
              from |-> start_quantity.unit.name,
              to |-> step_quantity.unit.name])
    ELSE IF Len(start_quantity.value) # 1 \/ Len(step_quantity.value) # 1
    THEN Err([variant |-> "MismatchError",
              msg |-> "x0 and dx must be single-value quantities"])
    ELSE LET converted == Quantity_to(step_quantity, start_quantity.unit)
         IN  IF converted.kind = "Err" THEN converted
             ELSE Ok(Some(Quantity_new(
                      x_values(start_quantity.value[1],
                               converted.val.value[1], data_len),
                      start_quantity.unit)))

\* build, the branch taken when x0 and dx are both given and no xindex is:
\* single-value test, dimension test, conversion, progression.
derive_index(start_quantity, step_quantity, data_len) ==
    IF Len(start_quantity.value) # 1 \/ Len(step_quantity.value) # 1
    THEN Err([variant |-> "MismatchError",
              msg |-> "x0 and dx must be single-value quantities"])
    ELSE IF start_quantity.unit.dims # step_quantity.unit.dims
    THEN Err([variant |-> "IncompatibleUnits",
              from |-> start_quantity.unit.name,
              to |-> step_quantity.unit.name])
    ELSE LET converted == Quantity_to(step_quantity, start_quantity.unit)
         IN  IF converted.kind = "Err" THEN converted
             ELSE Ok(Some(Quantity_new(
                      x_values(start_quantity.value[1],
                               converted.val.value[1], data_len),
                      start_quantity.unit)))

\* Slips of the axis resolution of build:
\*  - x0/dx are looked at before the explicit index;
resolved_index_pairfirst(self, data_len) ==
    IF self.x0 # None /\ self.dx # None
    THEN derive_index(self.x0[1], self.dx[1], data_len)
    ELSE IF self.xindex # None
    THEN IF Len(self.xindex[1].value) # data_len
         THEN Err([variant |-> "MismatchError",
                   msg |-> "Index length ({}) must match value length ({})",
                   args |-> <<Len(self.xindex[1].value), data_len>>])
         ELSE Ok(self.xindex)
    ELSE Ok(None)

\*  - the two lengths are cited in the wrong order;
resolved_index_swapped(self, data_len) ==
    IF self.xindex # None
    THEN IF Len(self.xindex[1].value) # data_len
         THEN Err([variant |-> "MismatchError",
                   msg |-> "Index length ({}) must match value length ({})",
                   args |-> <<data_len, Len(self.xindex[1].value)>>])
         ELSE Ok(self.xindex)
    ELSE IF self.x0 # None /\ self.dx # None
    THEN derive_index(self.x0[1], self.dx[1], data_len)
    ELSE Ok(None)

\*  - the length of the explicit index is not checked.
resolved_index_unchecked(self, data_len) ==
    IF self.xindex # None
    THEN Ok(self.xindex)
    ELSE IF self.x0 # None /\ self.dx # None
    THEN derive_index(self.x0[1], self.dx[1], data_len)
    ELSE Ok(None)

\* build: `let resolved_index = ...`, with its early error returns.
resolved_index(self, data_len) ==
    IF self.xindex # None
    THEN IF Len(self.xindex[1].value) # data_len
         THEN Err([variant |-> "MismatchError",
                   msg |-> "Index length ({}) must match value length ({})",
                   args |-> <<Len(self.xindex[1].value), data_len>>])
         ELSE Ok(self.xindex)
    ELSE IF self.x0 # None /\ self.dx # None
    THEN derive_index(self.x0[1], self.dx[1], data_len)
    ELSE Ok(None)

\* SeriesBuilder::build
SeriesBuilder_build(self) ==
    IF self.value = None
    THEN Err([variant |-> "InvalidQuantity",
              msg |-> "Value is required to build Series"])
    ELSE LET array_data == GWArray_new(self.value[1], self.unit, self.name,
                                       self.epoch, self.channel)
             data_len   == array_data.quantity.value_len
             index      == resolved_index(self, data_len)
         IN  IF index.kind = "Err" THEN index
             ELSE Ok(Series_new_internal(array_data, self.x0, self.dx,
                                         index.val))

(***************************************************************************)
(* A caller filling in a SeriesBuilder field by field and building it.     *)
(***************************************************************************)

\* The segment part at rest.
SegmentIdle ==
    /\ seg = (1 :> Segment_new(0, 0)) @@ (2 :> Segment_new(0, 0))
    /\ gen = (1 :> 0) @@ (2 :> 0)
    /\ call = [op |-> "new", a |-> 0, b |-> 0]
    /\ res = Segment_new(0, 0)

\* Numbers of samples a caller gives a value array.
DataLens == (0..MaxLen) \cup {TestSamples}

\* Units a caller puts on an axis.
AxisUnits == {METER, CENTIMETER, SECOND}

\* Single-valued start/step quantities: whole metres or seconds, written
\* in the unit u.
ScalarQuantities ==
    {Quantity_new(<<v * (100 \div u.scale)>>, u) :
        v \in 0..MaxStep, u \in AxisUnits}

\* Quantities that are not single-valued.
NonScalarQuantities ==
    {Quantity_new(<<0, 1>>, METER), Quantity_new(<<0, 1>>, SECOND),
     Quantity_new(<<>>, SECOND)}

\* An explicit index of n entries, in seconds, starting at t.
ExplicitIndex(t, n) == Quantity_new([i \in 1..n |-> t + i - 1], SECOND)

\* let b = SeriesBuilder::new()
BuilderInit ==
    /\ builder = SeriesBuilder_new
    /\ built = None
    /\ s_lhs = None
    /\ s_rhs = None
    /\ s_out = None
    /\ pc = "idle"
    /\ SegmentIdle

BuilderFrame == UNCHANGED <<segvars, s_lhs, s_rhs, s_out, pc>>

\* b.value(array)
Builder_value ==
    \E n \in DataLens :
        /\ built = None
        /\ builder' = [builder EXCEPT !.value = Some(n)]
        /\ UNCHANGED built
        /\ BuilderFrame

\* b.unit(METER)
Builder_unit ==
    /\ built = None
    /\ builder' = [builder EXCEPT !.unit = Some(METER)]
    /\ UNCHANGED built
    /\ BuilderFrame

\* b.name("Displacement")
Builder_name ==
    /\ built = None
    /\ builder' = [builder EXCEPT !.name = Some("Displacement")]
    /\ UNCHANGED built
    /\ BuilderFrame

\* b.epoch(Time::from_gps_seconds(100.0))
Builder_epoch ==
    /\ built = None
    /\ builder' = [builder EXCEPT !.epoch = Some(100)]
    /\ UNCHANGED built
    /\ BuilderFrame

\* b.channel(Channel::new("TEST_CHANNEL", ...))
Builder_channel ==
    /\ built = None
    /\ builder' = [builder EXCEPT !.channel = Some("TEST_CHANNEL")]
    /\ UNCHANGED built
    /\ BuilderFrame

\* b.x0(quantity)
Builder_x0 ==
    \E q \in ScalarQuantities \cup NonScalarQuantities :
        /\ built = None
        /\ builder' = [builder EXCEPT !.x0 = Some(q)]
        /\ UNCHANGED built
        /\ BuilderFrame

\* b.dx(quantity)
Builder_dx ==
    \E q \in ScalarQuantities \cup NonScalarQuantities :
        /\ built = None
        /\ builder' = [builder EXCEPT !.dx = Some(q)]
        /\ UNCHANGED built
        /\ BuilderFrame

\* b.xindex(quantity)
Builder_xindex ==
    \E n \in 0..MaxLen :
        /\ built = None
        /\ builder' = [builder EXCEPT !.xindex = Some(ExplicitIndex(10, n))]
        /\ UNCHANGED built
        /\ BuilderFrame

\* b.build(): consumes the builder (kept here as what was built from).
Builder_build ==
    /\ built = None
    /\ built' = Some(SeriesBuilder_build(builder))
    /\ UNCHANGED builder
    /\ BuilderFrame

\* The caller starts over with a fresh SeriesBuilder::new().
Builder_again ==
    /\ built # None
    /\ builder' = SeriesBuilder_new
    /\ built' = None
    /\ BuilderFrame

BuilderNext ==
    \/ Builder_value
    \/ Builder_unit
    \/ Builder_name
    \/ Builder_epoch
    \/ Builder_channel
    \/ Builder_x0
    \/ Builder_dx
    \/ Builder_xindex
    \/ Builder_build
    \/ Builder_again

BuilderSpec == BuilderInit /\ [][BuilderNext]_vars

(***************************************************************************)
(* SeriesBuilder::build: properties of what build returned (built[1]) for  *)
(* the builder it was called on.                                           *)
(***************************************************************************)

\* build was called on a builder that has a value array.
BuiltWithValue == built # None /\ builder.value # None

\* C17: with a value array and an explicit index of equal length, build
\* succeeds whatever x0/dx are (they are not validated), the axis is the
\* index verbatim, and x0 and dx are stored unchanged.
C17_ExplicitIndexWins ==
    (/\ BuiltWithValue
     /\ builder.xindex # None
     /\ Len(builder.xindex[1].value) = builder.value[1]) =>
        /\ built[1].kind = "Ok"
        /\ built[1].val.xindex_cache = builder.xindex
        /\ built[1].val.x0 = builder.x0
        /\ built[1].val.dx = builder.dx

\* A series was built from a non-empty explicit index together with a
\* multi-valued x0 in metres and a dx in seconds.
C17_Witness ==
    /\ BuiltWithValue
    /\ built[1].kind = "Ok"
    /\ builder.xindex # None
    /\ builder.value[1] = MaxLen
    /\ builder.x0 # None /\ builder.dx # None
    /\ Len(builder.x0[1].value) = 2
    /\ builder.x0[1].unit = METER
    /\ builder.dx[1].unit = SECOND
    /\ built[1].val.x0 = builder.x0

\* C18: with a value array and an explicit index of another length, build
\* returns the length-mismatch error citing the index length and then the
\* value length, and no Series, whatever x0/dx are.
C18_LengthMismatch ==
    (/\ BuiltWithValue
     /\ builder.xindex # None
     /\ Len(builder.xindex[1].value) # builder.value[1]) =>
        built[1] = Err([variant |-> "MismatchError",
                        msg |-> "Index length ({}) must match value length ({})",
                        args |-> <<Len(builder.xindex[1].value),
                                   builder.value[1]>>])

\* build refused an index shorter than the value array although a valid
\* x0/dx pair was supplied as well.
C18_Witness ==
    /\ BuiltWithValue
    /\ builder.xindex # None
    /\ 0 < Len(builder.xindex[1].value)
    /\ Len(builder.xindex[1].value) < builder.value[1]
    /\ builder.x0 = Some(Quantity_new(<<0>>, SECOND))
    /\ builder.dx = Some(Quantity_new(<<1>>, SECOND))
    /\ built[1].kind = "Err"

\* C19: with a value array, no explicit index, and single-valued x0 and dx
\* of equal dimensions, the axis has len(value) entries,
\* axis[i] = x0 + i * dx' (dx' = dx converted to x0's unit), in x0's unit.
C19_Progression ==
    (/\ BuiltWithValue
     /\ builder.xindex = None
     /\ builder.x0 # None /\ builder.dx # None
     /\ Len(builder.x0[1].value) = 1 /\ Len(builder.dx[1].value) = 1
     /\ builder.x0[1].unit.dims = builder.dx[1].unit.dims) =>
        /\ built[1].kind = "Ok"
        /\ built[1].val.xindex_cache # None
        /\ LET axis == built[1].val.xindex_cache[1]
               x0   == builder.x0[1]
               dx   == builder.dx[1]
               step == (dx.value[1] * dx.unit.scale) \div x0.unit.scale
           IN  /\ Len(axis.value) = builder.value[1]
               /\ axis.unit = x0.unit
               /\ \A i \in 1..builder.value[1] :
                      axis.value[i] = x0.value[1] + (i - 1) * step

\* x0 = 0 m and dx = 200 cm over six samples gave [0, 2, 4, 6, 8, 10] m.
C19_Witness ==
    /\ BuiltWithValue
    /\ builder.value[1] = TestSamples
    /\ builder.xindex = None
    /\ builder.x0 = Some(Quantity_new(<<0>>, METER))
    /\ builder.dx = Some(Quantity_new(<<200>>, CENTIMETER))
    /\ built[1].kind = "Ok"
    /\ built[1].val.xindex_cache =
           Some(Quantity_new(<<0, 2, 4, 6, 8, 10>>, METER))

\* C20: with a value array, no explicit index, and both x0 and dx, build
\* returns the must-be-scalar error (and no Series) when either is not
\* single-valued, also when their dimensions differ as well.
C20_ScalarRequired ==
    (/\ BuiltWithValue
     /\ builder.xindex = None
     /\ builder.x0 # None /\ builder.dx # None
     /\ (Len(builder.x0[1].value) # 1 \/ Len(builder.dx[1].value) # 1)) =>
        built[1] = Err([variant |-> "MismatchError",
                        msg |-> "x0 and dx must be single-value quantities"])

\* build refused a multi-valued x0 in metres given with a dx in seconds.
C20_Witness ==
    /\ BuiltWithValue
    /\ builder.xindex = None
    /\ builder.x0 = Some(Quantity_new(<<0, 1>>, METER))
    /\ builder.dx = Some(Quantity_new(<<1>>, SECOND))
    /\ built[1].kind = "Err"
    /\ built[1].err.variant = "MismatchError"

\* C21: with a value array, no explicit index, and single-valued x0 and dx
\* of different dimensions, build returns the incompatible-units error
\* naming x0's unit (from) and dx's unit (to), and no Series.
C21_IncompatibleUnits ==
    (/\ BuiltWithValue
     /\ builder.xindex = None
     /\ builder.x0 # None /\ builder.dx # None
     /\ Len(builder.x0[1].value) = 1 /\ Len(builder.dx[1].value) = 1
     /\ builder.x0[1].unit.dims # builder.dx[1].unit.dims) =>
        built[1] = Err([variant |-> "IncompatibleUnits",
                        from |-> builder.x0[1].unit.name,
                        to |-> builder.dx[1].unit.name])

\* build refused x0 = 0 m with dx = 1 s for a two-sample value array, with
\* from "m" and to "s".
C21_Witness ==
    /\ BuiltWithValue
    /\ builder.value = Some(2)
    /\ builder.xindex = None
    /\ builder.x0 = Some(Quantity_new(<<0>>, METER))
    /\ builder.dx = Some(Quantity_new(<<1>>, SECOND))
    /\ built[1].kind = "Err"
    /\ built[1].err.from = "m"
    /\ built[1].err.to = "s"

(***************************************************************************)
(* Series arithmetic and propagate_metadata_series.                        *)
(***************************************************************************)

\* A panic: the operation returns nothing, the process aborts.
Panic(msg) == [kind |-> "Panic", msg |-> msg]

\* Option::or
Option_or(a, b) == IF a # None THEN a ELSE b

\* A slip of the metadata lines: channel, x0 and dx are taken from the
\* left operand only (as GWArray's own operators do), without fallback.
reconciled_lhsonly(lhs, rhs) ==
    [new_name     |-> Option_or(lhs.array_data.name, rhs.array_data.name),
     new_epoch    |-> Option_or(lhs.array_data.epoch, rhs.array_data.epoch),
     new_channel  |-> lhs.array_data.channel,
     x0_clone     |-> lhs.x0,
     dx_clone     |-> lhs.dx,
     xindex_clone |-> Option_or(lhs.xindex_cache, rhs.xindex_cache)]

\* propagate_metadata_series, its first lines: each field from lhs, from
\* rhs when lhs has none.
reconciled(lhs, rhs) ==
    [new_name     |-> Option_or(lhs.array_data.name, rhs.array_data.name),
     new_epoch    |-> Option_or(lhs.array_data.epoch, rhs.array_data.epoch),
     new_channel  |-> Option_or(lhs.array_data.channel, rhs.array_data.channel),
     x0_clone     |-> Option_or(lhs.x0, rhs.x0),
     dx_clone     |-> Option_or(lhs.dx, rhs.dx),
     xindex_clone |-> Option_or(lhs.xindex_cache, rhs.xindex_cache)]

\* propagate_metadata_series, the block that recomputes the axis from a
\* start/step pair (it occurs twice, identically): not single-valued gives
\* no axis; a conversion that fails is an expect(), i.e. a panic.
recomputed_index(start_quantity, step_quantity, data_len) ==
    IF Len(start_quantity.value) # 1 \/ Len(step_quantity.value) # 1
    THEN Ok(None)
    ELSE LET converted == Quantity_to(step_quantity, start_quantity.unit)
         IN  IF converted.kind = "Err"
             THEN Panic("Unit conversion error in propagate_metadata_series")
             ELSE Ok(Some(Quantity_new(
                      x_values(start_quantity.value[1],
                               converted.val.value[1], data_len),
                      start_quantity.unit)))

\* Slips of the axis re-derivation:
\*  - the cached axis is reused without comparing its length;
re_derived_xindex_stale(xindex_clone, x0_clone, dx_clone, data_len) ==
    IF xindex_clone # None
    THEN Ok(xindex_clone)
    ELSE IF x0_clone # None /\ dx_clone # None
    THEN recomputed_index(x0_clone[1], dx_clone[1], data_len)
    ELSE Ok(None)

\*  - without a cached axis nothing is recomputed.
re_derived_xindex_cacheonly(xindex_clone, x0_clone, dx_clone, data_len) ==
    IF xindex_clone # None
    THEN IF Len(xindex_clone[1].value) = data_len
         THEN Ok(xindex_clone)
         ELSE IF x0_clone # None /\ dx_clone # None
         THEN recomputed_index(x0_clone[1], dx_clone[1], data_len)
         ELSE Ok(None)
    ELSE Ok(None)

\* propagate_metadata_series: `let re_derived_xindex = ...`
re_derived_xindex(xindex_clone, x0_clone, dx_clone, data_len) ==
    IF xindex_clone # None
    THEN IF Len(xindex_clone[1].value) = data_len
         THEN Ok(xindex_clone)
         ELSE IF x0_clone # None /\ dx_clone # None
         THEN recomputed_index(x0_clone[1], dx_clone[1], data_len)
         ELSE Ok(None)
    ELSE IF x0_clone # None /\ dx_clone # None
    THEN recomputed_index(x0_clone[1], dx_clone[1], data_len)
    ELSE Ok(None)

\* propagate_metadata_series: the Series it returns, or the panic.
propagate_metadata_series(result_quantity, lhs, rhs) ==
    LET m        == reconciled(lhs, rhs)
        data_len == result_quantity.value_len
        index    == re_derived_xindex(m.xindex_clone, m.x0_clone, m.dx_clone,
                                      data_len)
    IN  IF index.kind = "Panic" THEN index
        ELSE Ok(Series_new_internal(
                 GWArray_new(result_quantity.value_len,
                             Some(result_quantity.unit),
                             m.new_name, m.new_epoch, m.new_channel),
                 m.x0_clone, m.dx_clone, index.val))

\* impl Add / Sub / Mul / Div for Series: the `?` returns the array error,
\* otherwise the array's quantity goes through propagate_metadata_series.
Series_add(self, rhs) ==
    LET added_array == GWArray_add(self.array_data, rhs.array_data)
    IN  IF added_array.kind = "Err" THEN added_array
        ELSE propagate_metadata_series(added_array.val.quantity, self, rhs)

Series_sub(self, rhs) ==
    LET subtracted_array == GWArray_sub(self.array_data, rhs.array_data)
    IN  IF subtracted_array.kind = "Err" THEN subtracted_array
        ELSE propagate_metadata_series(subtracted_array.val.quantity, self, rhs)

Series_mul(self, rhs) ==
    LET multiplied_array == GWArray_mul(self.array_data, rhs.array_data)
    IN  IF multiplied_array.kind = "Err" THEN multiplied_array
        ELSE propagate_metadata_series(multiplied_array.val.quantity, self, rhs)

Series_div(self, rhs) ==
    LET divided_array == GWArray_div(self.array_data, rhs.array_data)
    IN  IF divided_array.kind = "Err" THEN divided_array
        ELSE propagate_metadata_series(divided_array.val.quantity, self, rhs)

(***************************************************************************)
(* A caller holding two Series (left and right operand), combining them    *)
(* and keeping results as operands of later operations.                    *)
(***************************************************************************)

Sides == {1, 2}

\* Metadata a caller gives the series it builds for side k.
SideName(k) == IF k = 1 THEN "Series1" ELSE "Series2"

SideEpoch(k) == IF k = 1 THEN 1000 ELSE 200

SideChannel(k) == IF k = 1 THEN "CHAN1" ELSE "CHAN2"

\* Builders of operands that differ in how the axis is given: any of no /
\* single-valued / multi-valued x0, no dx or a dx in metres, centimetres
\* or seconds, with or without an explicit index; those that build.
AxisBuilders(k) ==
    {b \in {[value |-> Some(n), unit |-> None, name |-> Some(SideName(k)),
             epoch |-> None, channel |-> None,
             x0 |-> a, dx |-> d, xindex |-> ix] :
               n \in 1..MaxLen,
               a \in {None, Some(Quantity_new(<<k>>, METER)),
                      Some(Quantity_new(<<0, 1>>, METER))},
               d \in {None, Some(Quantity_new(<<1>>, METER)),
                      Some(Quantity_new(<<100>>, CENTIMETER)),
                      Some(Quantity_new(<<1>>, SECOND))},
               ix \in {None} \cup {Some(ExplicitIndex(10 * k, j)) : j \in 1..MaxLen}} :
        SeriesBuilder_build(b).kind = "Ok"}

\* Builders of operands that differ in which metadata they carry: unit,
\* name, epoch, channel, x0 and dx each given or not.
MetaBuilders(k) ==
    {b \in {[value |-> Some(1), unit |-> u, name |-> nm, epoch |-> ep,
             channel |-> ch, x0 |-> a, dx |-> d, xindex |-> None] :
               u \in {None, Some(METER)},
               nm \in {None, Some(SideName(k))},
               ep \in {None, Some(SideEpoch(k))},
               ch \in {None, Some(SideChannel(k))},
               a \in {None, Some(Quantity_new(<<k>>, SECOND))},
               d \in {None, Some(Quantity_new(<<k>>, SECOND))}} :
        SeriesBuilder_build(b).kind = "Ok"}

SeriesFrame == UNCHANGED <<segvars, builder, built>>

\* Both operands freshly built, nothing computed yet.
Operands(B1, B2) ==
    /\ \E b1 \in B1, b2 \in B2 :
        /\ s_lhs = SeriesBuilder_build(b1).val
        /\ s_rhs = SeriesBuilder_build(b2).val
    /\ s_out = None
    /\ pc = "idle"
    /\ builder = None
    /\ built = None
    /\ SegmentIdle

\* The outcome of an operation is recorded; a panic aborts the caller.
Computed(op, result) ==
    /\ pc # "aborted"
    /\ Broadcastable(s_lhs.array_data.quantity.value_len,
                     s_rhs.array_data.quantity.value_len)
    /\ s_out' = [op |-> op, result |-> result]
    /\ pc' = IF result.kind = "Panic" THEN "aborted" ELSE "computed"
    /\ UNCHANGED <<s_lhs, s_rhs>>
    /\ SeriesFrame

\* s_lhs + s_rhs
Call_Series_add == Computed("add", Series_add(s_lhs, s_rhs))

\* s_lhs - s_rhs
Call_Series_sub == Computed("sub", Series_sub(s_lhs, s_rhs))

\* s_lhs * s_rhs
Call_Series_mul == Computed("mul", Series_mul(s_lhs, s_rhs))

\* s_lhs / s_rhs
Call_Series_div == Computed("div", Series_div(s_lhs, s_rhs))

\* The result of a successful operation becomes an operand.
KeepResult ==
    /\ pc = "computed"
    /\ s_out.result.kind = "Ok"
    /\ \E k \in Sides :
        /\ s_lhs' = IF k = 1 THEN s_out.result.val ELSE s_lhs
        /\ s_rhs' = IF k = 2 THEN s_out.result.val ELSE s_rhs
    /\ s_out' = None
    /\ pc' = "idle"
    /\ SeriesFrame

SeriesInit == Operands(AxisBuilders(1), AxisBuilders(2))

SeriesNext ==
    \/ Call_Series_add
    \/ Call_Series_sub
    \/ Call_Series_mul
    \/ Call_Series_div
    \/ KeepResult

SeriesSpec == SeriesInit /\ [][SeriesNext]_vars

MetaInit == Operands(MetaBuilders(1), MetaBuilders(2))

MetaNext ==
    \/ Call_Series_add
    \/ Call_Series_sub
    \/ Call_Series_mul
    \/ Call_Series_div

SeriesMetaSpec == MetaInit /\ [][MetaNext]_vars

(***************************************************************************)
(* Claims about Series arithmetic.                                         *)
(***************************************************************************)

\* The last operation returned a Series.
Succeeded == s_out # None /\ s_out.result.kind = "Ok"

\* Every Series the caller holds: both operands and a returned result.
HeldSeries ==
    {s_lhs, s_rhs} \cup (IF Succeeded THEN {s_out.result.val} ELSE {})

\* get_xindex() is None, or as long as the value array.
AxisFits(s) ==
    \/ s.xindex_cache = None
    \/ Len(s.xindex_cache[1].value) = s.array_data.quantity.value_len

\* C13: every Series that is built, or returned by a chain of successful
\* add/sub/mul/div over built Series, has no axis or an axis exactly as
\* long as its value array.
C13_AxisLength == \A s \in HeldSeries : AxisFits(s)

\* An operation returned a Series longer than its left operand, whose cached
\* axis therefore could not be reused, and the result carries an axis.
C13_Witness ==
    /\ Succeeded
    /\ s_lhs.xindex_cache # None
    /\ Len(s_lhs.xindex_cache[1].value)
         # s_out.result.val.array_data.quantity.value_len
    /\ s_out.result.val.xindex_cache # None
    /\ AxisFits(s_out.result.val)

\* C14: an operation on two built Series returns a Series or an error
\* value; it never panics while reconciling metadata and axis.
C14_NeverPanics ==
    s_out # None => s_out.result.kind \in {"Ok", "Err"}

\* The field `out` of a result is the left operand's when it has one, else
\* the right operand's.
LhsElseRhs(out, l, r) ==
    /\ l # None => out = l
    /\ l = None => out = r

\* C15: after a successful operation each of name, epoch, channel, x0 and
\* dx of the result is the left operand's value when it has one, otherwise
\* the right operand's, each field on its own.
C15_FieldByField ==
    Succeeded =>
        LET o == s_out.result.val
        IN  /\ LhsElseRhs(o.array_data.name,
                          s_lhs.array_data.name, s_rhs.array_data.name)
            /\ LhsElseRhs(o.array_data.epoch,
                          s_lhs.array_data.epoch, s_rhs.array_data.epoch)
            /\ LhsElseRhs(o.array_data.channel,
                          s_lhs.array_data.channel, s_rhs.array_data.channel)
            /\ LhsElseRhs(o.x0, s_lhs.x0, s_rhs.x0)
            /\ LhsElseRhs(o.dx, s_lhs.dx, s_rhs.dx)

\* One result took its name and x0 from the left operand and its epoch,
\* channel and dx from the right one.
C15_Witness ==
    /\ Succeeded
    /\ s_lhs.array_data.name # None
    /\ s_rhs.array_data.name # None
    /\ s_out.result.val.array_data.name = s_lhs.array_data.name
    /\ s_lhs.array_data.epoch = None
    /\ s_out.result.val.array_data.epoch = Some(SideEpoch(2))
    /\ s_lhs.array_data.channel = None
    /\ s_out.result.val.array_data.channel = Some(SideChannel(2))
    /\ s_lhs.x0 # None
    /\ s_rhs.x0 # None
    /\ s_out.result.val.x0 = s_lhs.x0
    /\ s_lhs.dx = None
    /\ s_out.result.val.dx = s_rhs.dx
    /\ s_rhs.dx # None

\* The cached axis, start and step an operation sees, by precedence.
SeenAxis == IF s_lhs.xindex_cache # None THEN s_lhs.xindex_cache
            ELSE s_rhs.xindex_cache

SeenStart == IF s_lhs.x0 # None THEN s_lhs.x0 ELSE s_rhs.x0

SeenStep == IF s_lhs.dx # None THEN s_lhs.dx ELSE s_rhs.dx

\* The seen cached axis is as long as the result.
AxisReusable ==
    /\ SeenAxis # None
    /\ Len(SeenAxis[1].value) = s_out.result.val.array_data.quantity.value_len

\* C16 as stated: after a successful operation the result's axis is the
\* seen cached axis if it is as long as the result; else, if a start and
\* a step are seen, what the builder computes from them, passing the
\* builder's validation; else absent.
C16_AsStated ==
    Succeeded =>
        LET o == s_out.result.val
            n == o.array_data.quantity.value_len
        IN  IF AxisReusable THEN o.xindex_cache = SeenAxis
            ELSE IF SeenStart # None /\ SeenStep # None
            THEN /\ derive_index(SeenStart[1], SeenStep[1], n).kind = "Ok"
                 /\ o.xindex_cache = derive_index(SeenStart[1], SeenStep[1], n).val
            ELSE o.xindex_cache = None

\* C16: after a successful operation the result's axis is the seen cached
\* axis if it is as long as the result; else, if a start and a step are
\* seen: absent when either is not single-valued, otherwise the builder's
\* progression from them; else absent.
C16_AxisRederived ==
    Succeeded =>
        LET o == s_out.result.val
            n == o.array_data.quantity.value_len
        IN  IF AxisReusable THEN o.xindex_cache = SeenAxis
            ELSE IF SeenStart # None /\ SeenStep # None
            THEN IF Len(SeenStart[1].value) # 1 \/ Len(SeenStep[1].value) # 1
                 THEN o.xindex_cache = None
                 ELSE /\ derive_index(SeenStart[1], SeenStep[1], n).kind = "Ok"
                      /\ o.xindex_cache
                           = derive_index(SeenStart[1], SeenStep[1], n).val
            ELSE o.xindex_cache = None

\* The seen cached axis was too short for the result, and the result's
\* axis was recomputed from a start of one operand and a step of the other,
\* the step given in another unit than the start.
C16_Witness ==
    /\ Succeeded
    /\ SeenAxis # None
    /\ ~AxisReusable
    /\ s_lhs.x0 # None
    /\ s_lhs.dx = None
    /\ s_rhs.dx # None
    /\ SeenStep[1].unit # SeenStart[1].unit
    /\ s_out.result.val.xindex_cache # None
    /\ s_out.result.val.xindex_cache # SeenAxis
    /\ s_out.result.val.xindex_cache[1].unit = SeenStart[1].unit

(***************************************************************************)
(* Part 3: TimeSeriesBase (src/src/timeseries/core.rs).                    *)
(*                                                                         *)
(* A TimeSeriesBase wraps one Series and reads its x0 / dx / axis as       *)
(* t0 / dt / times.  The sample rate is a reciprocal, so the f64 values    *)
(* of this part are counted in halves: the integer n stands for n / 2,     *)
(* and F64_ONE for 1.0.  Sums, multiples and unit conversions are the      *)
(* same on halves; only the quotient needs the scale.  The values put in   *)
(* are 0.5, 1.0 and 2.0, whose reciprocals are exact, as they are in f64.  *)
(***************************************************************************)

\* The f64 1.0 (array![1.0]).
F64_ONE == 2

\* f64 division l / r of values counted in halves (r # 0).
f64_div(l, r) == (l * F64_ONE) \div r

\* Positive values with exact reciprocals: 0.5, 1.0, 2.0.
Reciprocals == {1, 2, 4}

HERTZ == [name |-> "Hz", scale |-> 100, dims |-> <<0, -1>>]

\* Time::from_gps_seconds and Time::as_gps_seconds_f64
Time_from_gps_seconds(seconds) == [gps_seconds |-> seconds]

Time_as_gps_seconds_f64(time) == time.gps_seconds

\* Quantity / Quantity on axis quantities, elementwise, a single element
\* spread over the other operand.
Quantity_div_values(l, r) ==
    LET n == Broadcast(Len(l.value), Len(r.value))
        at(q, i) == IF Len(q.value) = 1 THEN q.value[1] ELSE q.value[i]
    IN  Ok(Quantity_new([i \in 1..n |-> f64_div(at(l, i), at(r, i))],
                        Unit_div(l.unit, r.unit)))

\* Quantity::new(array![1.0], Unit::new("", 1.0, UnitProduct::zero()))
one_quantity == Quantity_new(<<F64_ONE>>, DIMENSIONLESS)

\* TimeSeriesBaseBuilder::new
TimeSeriesBaseBuilder_new ==
    [value |-> None, unit |-> None, name |-> None, channel |-> None,
     t0 |-> None, dt |-> None, sample_rate |-> None, times |-> None,
     raw_t0_float |-> None]

\* TimeSeriesBase::new_internal
TimeSeriesBase_new_internal(series_data) == [series_data |-> series_data]

\* build: `let resolved_t0_quantity = ...`
resolved_t0_quantity(self) ==
    IF self.t0 # None
    THEN Some(Quantity_new(<<Time_as_gps_seconds_f64(self.t0[1])>>, SECOND))
    ELSE IF self.raw_t0_float # None
    THEN Some(Quantity_new(<<self.raw_t0_float[1]>>, SECOND))
    ELSE None

\* A slip of the step resolution: the sample rate is inverted without the
\* single-value test.
resolved_dt_quantity_unchecked(self) ==
    IF self.dt # None
    THEN Ok(self.dt)
    ELSE IF self.sample_rate # None
    THEN LET quotient == Quantity_div_values(one_quantity, self.sample_rate[1])
         IN  IF quotient.kind = "Err" THEN quotient
             ELSE LET dt_converted == Quantity_to(quotient.val, SECOND)
                  IN  IF dt_converted.kind = "Err" THEN dt_converted
                      ELSE Ok(Some(dt_converted.val))
    ELSE Ok(None)

\* build: `let resolved_dt_quantity = ...`, with its early returns.
resolved_dt_quantity(self) ==
    IF self.dt # None
    THEN Ok(self.dt)
    ELSE IF self.sample_rate # None
    THEN IF Len(self.sample_rate[1].value) # 1
         THEN Err([variant |-> "InvalidQuantity",
                   msg |-> "Sample rate must be a scalar quantity."])
         ELSE LET quotient == Quantity_div_values(one_quantity,
                                                  self.sample_rate[1])
              IN  IF quotient.kind = "Err" THEN quotient
                  ELSE LET dt_converted == Quantity_to(quotient.val, SECOND)
                       IN  IF dt_converted.kind = "Err" THEN dt_converted
                           ELSE Ok(Some(dt_converted.val))
    ELSE Ok(None)

\* A slip of the axis fields: t0 and dt are handed on beside the times.
time_axis_alsostart(self, series_builder) ==
    LET dt == resolved_dt_quantity(self)
    IN  IF dt.kind = "Err" THEN dt
        ELSE Ok([series_builder EXCEPT
                   !.xindex = self.times,
                   !.x0 = resolved_t0_quantity(self),
                   !.dx = dt.val])

\* build: the SeriesBuilder after the time-domain fields are handed on,
\* the times alone when given, else t0 and dt.
time_axis(self, series_builder) ==
    IF self.times # None
    THEN Ok([series_builder EXCEPT !.xindex = self.times])
    ELSE LET dt == resolved_dt_quantity(self)
         IN  IF dt.kind = "Err" THEN dt
             ELSE Ok([series_builder EXCEPT
                        !.x0 = resolved_t0_quantity(self),
                        !.dx = dt.val])

\* TimeSeriesBaseBuilder::build
TimeSeriesBaseBuilder_build(self) ==
    IF self.value = None
    THEN Err([variant |-> "InvalidQuantity",
              msg |-> "Value is required to build TimeSeriesBase"])
    ELSE LET series_builder ==
                 time_axis(self,
                     [SeriesBuilder_new EXCEPT
                        !.value = self.value,
                        !.unit = Some(IF self.unit = None THEN DIMENSIONLESS
                                      ELSE self.unit[1]),
                        !.name = self.name,
                        !.channel = self.channel])
         IN  IF series_builder.kind = "Err" THEN series_builder
             ELSE LET series_data == SeriesBuilder_build(series_builder.val)
                  IN  IF series_data.kind = "Err" THEN series_data
                      ELSE Ok(TimeSeriesBase_new_internal(series_data.val))

\* TimeSeriesBase::value (the number of samples) / unit / get_name /
\* get_channel
TimeSeriesBase_value(self) == self.series_data.array_data.quantity.value_len

TimeSeriesBase_unit(self) == self.series_data.array_data.quantity.unit

TimeSeriesBase_get_name(self) == self.series_data.array_data.name

TimeSeriesBase_get_channel(self) == self.series_data.array_data.channel

\* TimeSeriesBase::get_t0 / get_dt / get_times
TimeSeriesBase_get_t0(self) == self.series_data.x0

TimeSeriesBase_get_dt(self) == self.series_data.dx

TimeSeriesBase_get_times(self) == self.series_data.xindex_cache

\* A slip of get_epoch: the epoch is read off the first time of the axis.
TimeSeriesBase_get_epoch_fromtimes(self) ==
    IF TimeSeriesBase_get_times(self) = None THEN Ok(None)
    ELSE IF Len(TimeSeriesBase_get_times(self)[1].value) = 0
    THEN Panic("index out of bounds")
    ELSE Ok(Some(Time_from_gps_seconds(
                     TimeSeriesBase_get_times(self)[1].value[1])))

\* TimeSeriesBase::get_epoch; value[0] of an empty array is a panic.
TimeSeriesBase_get_epoch(self) ==
    IF TimeSeriesBase_get_t0(self) = None THEN Ok(None)
    ELSE IF Len(TimeSeriesBase_get_t0(self)[1].value) = 0
    THEN Panic("index out of bounds")
    ELSE Ok(Some(Time_from_gps_seconds(
                     TimeSeriesBase_get_t0(self)[1].value[1])))

\* TimeSeriesBase::get_sample_rate; each expect() is a panic on Err.
TimeSeriesBase_get_sample_rate(self) ==
    IF TimeSeriesBase_get_dt(self) = None THEN Ok(None)
    ELSE LET quotient == Quantity_div_values(one_quantity,
                                             TimeSeriesBase_get_dt(self)[1])
         IN  IF quotient.kind = "Err"
             THEN Panic("Failed to divide Quantity for sample rate.")
             ELSE LET rate == Quantity_to(quotient.val, HERTZ)
                  IN  IF rate.kind = "Err"
                      THEN Panic("Failed to convert Quantity to Hertz.")
                      ELSE Ok(Some(rate.val))

\* Lifts a Series operation's outcome into TimeSeriesBase (the `?` returns
\* the error unchanged).
TimeSeriesBase_lift(result_series) ==
    IF result_series.kind = "Ok"
    THEN Ok(TimeSeriesBase_new_internal(result_series.val))
    ELSE result_series

\* impl Add / Sub / Mul / Div for TimeSeriesBase
TimeSeriesBase_add(self, rhs) ==
    TimeSeriesBase_lift(Series_add(self.series_data, rhs.series_data))

TimeSeriesBase_sub(self, rhs) ==
    TimeSeriesBase_lift(Series_sub(self.series_data, rhs.series_data))

TimeSeriesBase_mul(self, rhs) ==
    TimeSeriesBase_lift(Series_mul(self.series_data, rhs.series_data))

TimeSeriesBase_div(self, rhs) ==
    TimeSeriesBase_lift(Series_div(self.series_data, rhs.series_data))

(***************************************************************************)
(* A caller building one TimeSeriesBase and reading its computed views.    *)
(***************************************************************************)

\* The GPS second 100.0 of the tests, and the times 100.0, 100.5, ...
GpsStart == 100 * F64_ONE

\* Explicit times one second apart: 100.0, 101.0, 102.0, ...
ExplicitTimes(n) ==
    Quantity_new([i \in 1..n |-> GpsStart + (i - 1) * F64_ONE], SECOND)

\* Number of samples of the value array of test_timeseriesbase_creation_times.
TimeTestSamples == 3

\* Numbers of samples a caller gives a value array or explicit times.
TimeLens == (0..MaxLen) \cup {TimeTestSamples}

\* Filled-in builders, every setter called or not: value arrays of every
\* length, a unit, a name, a channel, an epoch and / or a raw t0, a dt
\* (single-valued in seconds, in metres, or multi-valued), a sample rate
\* (single-valued in hertz, in metres, or multi-valued), and explicit
\* times of every length.
TimeBuilders ==
    {[TimeSeriesBaseBuilder_new EXCEPT
        !.value = v, !.unit = u, !.name = nm, !.channel = ch,
        !.t0 = e, !.raw_t0_float = r, !.dt = d,
        !.sample_rate = sr, !.times = ts] :
       v \in {None} \cup {Some(n) : n \in TimeLens},
       u \in {None, Some(METER)},
       nm \in {None, Some("Known Times")},
       ch \in {None, Some("H1:GW-STRAIN")},
       e \in {None, Some(Time_from_gps_seconds(GpsStart))},
       r \in {None, Some(GpsStart + 1)},
       d \in {None, Some(Quantity_new(<<1>>, METER)),
              Some(Quantity_new(<<1, 2>>, SECOND))}
             \cup {Some(Quantity_new(<<h>>, SECOND)) : h \in Reciprocals},
       sr \in {None, Some(Quantity_new(<<2>>, METER)),
               Some(Quantity_new(<<2, 4>>, HERTZ))}
              \cup {Some(Quantity_new(<<h>>, HERTZ)) : h \in Reciprocals},
       ts \in {None} \cup {Some(ExplicitTimes(n)) : n \in TimeLens}}

\* let b = TimeSeriesBaseBuilder::new().value(..)...
TimeInit ==
    /\ builder \in TimeBuilders
    /\ built = None
    /\ s_lhs = None
    /\ s_rhs = None
    /\ s_out = None
    /\ pc = "idle"
    /\ SegmentIdle

\* let ts = b.build()
Time_build ==
    /\ built = None
    /\ built' = Some(TimeSeriesBaseBuilder_build(builder))
    /\ UNCHANGED <<segvars, builder, s_lhs, s_rhs, s_out, pc>>

\* A view of the built TimeSeriesBase is read; a panic aborts the caller.
Viewed(op, result) ==
    /\ pc # "aborted"
    /\ s_out' = [op |-> op, result |-> result]
    /\ pc' = IF result.kind = "Panic" THEN "aborted" ELSE "computed"
    /\ UNCHANGED <<segvars, builder, built, s_lhs, s_rhs>>

TimeBuilt == built # None /\ built[1].kind = "Ok"

\* ts.value().len()
Time_value ==
    /\ TimeBuilt
    /\ Viewed("value", Ok(TimeSeriesBase_value(built[1].val)))

\* ts.unit()
Time_unit ==
    /\ TimeBuilt
    /\ Viewed("unit", Ok(TimeSeriesBase_unit(built[1].val)))

\* ts.get_name()
Time_get_name ==
    /\ TimeBuilt
    /\ Viewed("get_name", Ok(TimeSeriesBase_get_name(built[1].val)))

\* ts.get_channel()
Time_get_channel ==
    /\ TimeBuilt
    /\ Viewed("get_channel", Ok(TimeSeriesBase_get_channel(built[1].val)))

\* ts.get_t0()
Time_get_t0 ==
    /\ TimeBuilt
    /\ Viewed("get_t0", Ok(TimeSeriesBase_get_t0(built[1].val)))

\* ts.get_dt()
Time_get_dt ==
    /\ TimeBuilt
    /\ Viewed("get_dt", Ok(TimeSeriesBase_get_dt(built[1].val)))

\* ts.get_times()
Time_get_times ==
    /\ TimeBuilt
    /\ Viewed("get_times", Ok(TimeSeriesBase_get_times(built[1].val)))

\* ts.get_epoch()
Time_get_epoch ==
    /\ TimeBuilt
    /\ Viewed("get_epoch", TimeSeriesBase_get_epoch(built[1].val))

\* ts.get_sample_rate()
Time_get_sample_rate ==
    /\ TimeBuilt
    /\ Viewed("get_sample_rate", TimeSeriesBase_get_sample_rate(built[1].val))

TimeNext ==
    \/ Time_build
    \/ Time_value
    \/ Time_unit
    \/ Time_get_name
    \/ Time_get_channel
    \/ Time_get_t0
    \/ Time_get_dt
    \/ Time_get_times
    \/ Time_get_epoch
    \/ Time_get_sample_rate

TimeSpec == TimeInit /\ [][TimeNext]_vars

(***************************************************************************)
(* Claims about TimeSeriesBase and its builder.                            *)
(***************************************************************************)

\* The view `op` was the last one read.
Read(op) == s_out # None /\ s_out.op = op

\* C22 as stated: when the time axis is present and non-empty get_epoch is
\* the GPS time of its first value, and get_epoch is absent only when the
\* axis is absent.
C22_AsStated ==
    Read("get_epoch") =>
        LET times == TimeSeriesBase_get_times(built[1].val)
        IN  /\ (times # None /\ Len(times[1].value) > 0) =>
                   s_out.result
                     = Ok(Some(Time_from_gps_seconds(times[1].value[1])))
            /\ s_out.result = Ok(None) => times = None

\* C22: get_epoch is the GPS time of t0: absent when explicit times were
\* given or neither an epoch nor a raw t0 was, else the epoch given, else
\* the time of the raw t0; when present beside a non-empty axis of a built
\* TimeSeriesBase it is the axis's first time.
C22_EpochFromT0 ==
    Read("get_epoch") =>
        LET times == TimeSeriesBase_get_times(built[1].val)
        IN  /\ builder.times # None => s_out.result = Ok(None)
            /\ (builder.times = None /\ builder.t0 # None) =>
                   s_out.result = Ok(builder.t0)
            /\ (builder.times = None /\ builder.t0 = None
                  /\ builder.raw_t0_float # None) =>
                   s_out.result
                     = Ok(Some(Time_from_gps_seconds(builder.raw_t0_float[1])))
            /\ (builder.times = None /\ builder.t0 = None
                  /\ builder.raw_t0_float = None) =>
                   s_out.result = Ok(None)
            /\ (s_out.result # Ok(None) /\ times # None
                  /\ Len(times[1].value) > 0) =>
                   s_out.result
                     = Ok(Some(Time_from_gps_seconds(times[1].value[1])))

\* get_epoch was read as absent on a TimeSeriesBase built from
\* non-empty explicit times although an epoch was supplied too.
C22_Witness ==
    /\ Read("get_epoch")
    /\ builder.times # None
    /\ builder.t0 # None
    /\ Len(TimeSeriesBase_get_times(built[1].val)[1].value) > 0
    /\ s_out.result = Ok(None)

\* C23: when explicit times are supplied and build succeeds, get_times is
\* the supplied array and get_t0, get_dt, get_epoch and get_sample_rate
\* are absent, whatever epoch, t0, dt or sample rate were supplied.
C23_TimesOnly ==
    (s_out # None /\ builder.times # None) =>
        /\ s_out.op = "get_times" => s_out.result = Ok(builder.times)
        /\ s_out.op \in {"get_t0", "get_dt", "get_epoch", "get_sample_rate"} =>
               s_out.result = Ok(None)

\* get_dt was read as absent from a TimeSeriesBase built from non-empty
\* explicit times together with an epoch, a dt and a sample rate.
C23_Witness ==
    /\ Read("get_dt")
    /\ builder.times # None
    /\ TimeSeriesBase_get_times(built[1].val) = builder.times
    /\ Len(builder.times[1].value) > 0
    /\ builder.t0 # None
    /\ builder.dt # None
    /\ builder.sample_rate # None
    /\ s_out.result = Ok(None)

\* The supplied sample rate is not single-valued.
RateNotScalar ==
    /\ builder.sample_rate # None
    /\ Len(builder.sample_rate[1].value) # 1

\* C24 as stated: build fails with an invalid-quantity error whenever the
\* sample rate is not single-valued, whatever else was supplied.
C24_AsStated ==
    (built # None /\ RateNotScalar) =>
        /\ built[1].kind = "Err"
        /\ built[1].err.variant = "InvalidQuantity"

\* C24: with a value array, no times and no dt, a sample rate that is not
\* single-valued makes build return the invalid-quantity error "Sample
\* rate must be a scalar quantity."; with times or a dt the sample rate
\* is not looked at, and build does what it does without it.
C24_RateScalarWhenUsed ==
    (built # None /\ RateNotScalar) =>
        IF builder.times = None /\ builder.dt = None
        THEN builder.value # None =>
                 built[1] = Err([variant |-> "InvalidQuantity",
                                 msg |-> "Sample rate must be a scalar quantity."])
        ELSE built[1] = TimeSeriesBaseBuilder_build(
                            [builder EXCEPT !.sample_rate = None])

\* build refused a two-valued sample rate given with an epoch and a value
\* array, without times or dt.
C24_Witness ==
    /\ built # None
    /\ RateNotScalar
    /\ builder.value # None
    /\ builder.t0 # None
    /\ builder.times = None
    /\ builder.dt = None
    /\ built[1].kind = "Err"
    /\ built[1].err.msg = "Sample rate must be a scalar quantity."

\* C25: get_sample_rate of a built TimeSeriesBase returns: absent when dt
\* is absent, otherwise 1 / dt in hertz; it never panics.
C25_SampleRateReturns ==
    Read("get_sample_rate") =>
        LET dt == TimeSeriesBase_get_dt(built[1].val)
        IN  /\ s_out.result.kind = "Ok"
            /\ dt = None => s_out.result.val = None
            /\ dt # None =>
                   /\ s_out.result.val # None
                   /\ s_out.result.val[1].unit = HERTZ
                   /\ s_out.result.val[1].value
                        = [i \in DOMAIN dt[1].value |->
                             f64_div(F64_ONE, dt[1].value[i])]

(***************************************************************************)
(* A caller adding two TimeSeriesBase, their Series, or their GWArrays,    *)
(* whatever the units of the two value arrays.                             *)
(***************************************************************************)

\* Units given to a value array.
DataUnits == {None, Some(METER), Some(CENTIMETER), Some(SECOND)}

\* Builders of operand k: a value array in any unit, with or without a
\* channel, with or without an epoch.
UnitBuilders(k) ==
    {[TimeSeriesBaseBuilder_new EXCEPT
        !.value = Some(n), !.unit = u, !.name = Some(SideName(k)),
        !.channel = ch, !.t0 = e] :
       n \in 1..MaxLen, u \in DataUnits,
       ch \in {None, Some(SideChannel(k))},
       e \in {None, Some(Time_from_gps_seconds(GpsStart + k))}}

\* Both operands freshly built, nothing computed yet.
TimeOperands(B1, B2) ==
    /\ \E b1 \in B1, b2 \in B2 :
        /\ TimeSeriesBaseBuilder_build(b1).kind = "Ok"
        /\ TimeSeriesBaseBuilder_build(b2).kind = "Ok"
        /\ s_lhs = TimeSeriesBaseBuilder_build(b1).val
        /\ s_rhs = TimeSeriesBaseBuilder_build(b2).val
    /\ s_out = None
    /\ pc = "idle"
    /\ builder = None
    /\ built = None
    /\ SegmentIdle

\* The outcome of an operation is recorded; a panic aborts the caller.
TimeComputed(op, result) ==
    /\ pc # "aborted"
    /\ Broadcastable(s_lhs.series_data.array_data.quantity.value_len,
                     s_rhs.series_data.array_data.quantity.value_len)
    /\ s_out' = [op |-> op, result |-> result]
    /\ pc' = IF result.kind = "Panic" THEN "aborted" ELSE "computed"
    /\ UNCHANGED <<s_lhs, s_rhs>>
    /\ SeriesFrame

UnitsInit == TimeOperands(UnitBuilders(1), UnitBuilders(2))

\* The two GWArrays are added.
Units_GWArray_add ==
    TimeComputed("GWArray_add",
                 GWArray_add(s_lhs.series_data.array_data,
                             s_rhs.series_data.array_data))

\* The two Series are added.
Units_Series_add ==
    TimeComputed("Series_add",
                 Series_add(s_lhs.series_data, s_rhs.series_data))

\* The two TimeSeriesBase are added.
Units_TimeSeriesBase_add ==
    TimeComputed("TimeSeriesBase_add", TimeSeriesBase_add(s_lhs, s_rhs))

UnitsNext ==
    \/ Units_GWArray_add
    \/ Units_Series_add
    \/ Units_TimeSeriesBase_add

UnitsSpec == UnitsInit /\ [][UnitsNext]_vars

\* The units of the two value arrays.
LhsUnit == s_lhs.series_data.array_data.quantity.unit

RhsUnit == s_rhs.series_data.array_data.quantity.unit

\* C26: adding two GWArrays of different units, of one dimension or not,
\* returns the incompatible-addition error naming the left unit, then the
\* right unit, and no array; Series and TimeSeriesBase addition return the
\* same error unchanged.
C26_DifferentUnits ==
    (s_out # None /\ LhsUnit # RhsUnit) =>
        s_out.result = Err([variant |-> "IncompatibleAddition",
                            lhs |-> LhsUnit.name, rhs |-> RhsUnit.name])

\* Two TimeSeriesBase in metres and in centimetres were added and the
\* error names "m", then "cm".
C26_Witness ==
    /\ Read("TimeSeriesBase_add")
    /\ LhsUnit = METER
    /\ RhsUnit = CENTIMETER
    /\ s_out.result.kind = "Err"
    /\ s_out.result.err.variant = "IncompatibleAddition"
    /\ s_out.result.err.lhs = "m"
    /\ s_out.result.err.rhs = "cm"

(***************************************************************************)
(* A caller combining TimeSeriesBase built without explicit times, and     *)
(* keeping results as operands of later operations.                        *)
(***************************************************************************)

\* Builders of operand k: a value array without unit (so that products
\* and quotients keep the unit and results can be combined on and on),
\* with or without a name and a channel, with or without an epoch, with
\* or without a dt of 0.5 s or 1 s; no explicit times.
StartStepBuilders(k) ==
    {[TimeSeriesBaseBuilder_new EXCEPT
        !.value = Some(n), !.name = nc[1],
        !.channel = nc[2], !.t0 = e, !.dt = d] :
       n \in 1..MaxLen,
       nc \in {<<None, None>>, <<Some(SideName(k)), Some(SideChannel(k))>>},
       e \in {None, Some(Time_from_gps_seconds(GpsStart + k))},
       d \in {None, Some(Quantity_new(<<1>>, SECOND)),
              Some(Quantity_new(<<2>>, SECOND))}}

ArithInit == TimeOperands(StartStepBuilders(1), StartStepBuilders(2))

\* ts1 + ts2
Arith_add == TimeComputed("add", TimeSeriesBase_add(s_lhs, s_rhs))

\* ts1 - ts2
Arith_sub == TimeComputed("sub", TimeSeriesBase_sub(s_lhs, s_rhs))

\* ts1 * ts2
Arith_mul == TimeComputed("mul", TimeSeriesBase_mul(s_lhs, s_rhs))

\* ts1 / ts2
Arith_div == TimeComputed("div", TimeSeriesBase_div(s_lhs, s_rhs))

\* The result of a successful operation becomes an operand.
Arith_keep ==
    /\ pc = "computed"
    /\ s_out.result.kind = "Ok"
    /\ \E k \in Sides :
        /\ s_lhs' = IF k = 1 THEN s_out.result.val ELSE s_lhs
        /\ s_rhs' = IF k = 2 THEN s_out.result.val ELSE s_rhs
    /\ s_out' = None
    /\ pc' = "idle"
    /\ SeriesFrame

ArithNext ==
    \/ Arith_add
    \/ Arith_sub
    \/ Arith_mul
    \/ Arith_div
    \/ Arith_keep

TimeArithSpec == ArithInit /\ [][ArithNext]_vars

\* Every TimeSeriesBase the caller holds: both operands and a returned
\* result.
HeldTimeSeries ==
    {s_lhs, s_rhs} \cup (IF Succeeded THEN {s_out.result.val} ELSE {})

\* The axis of ts is the progression from its t0 and dt, and its epoch is
\* the first of its times.
AxisAgrees(ts) ==
    LET s == ts.series_data
    IN  (s.x0 # None /\ s.dx # None /\ s.xindex_cache # None) =>
            /\ derive_index(s.x0[1], s.dx[1], s.array_data.quantity.value_len)
                 = Ok(s.xindex_cache)
            /\ Len(s.xindex_cache[1].value) > 0 =>
                 TimeSeriesBase_get_epoch(ts)
                   = Ok(Some(Time_from_gps_seconds(s.xindex_cache[1].value[1])))

\* C30: in every Series built without an explicit index, or returned by a
\* chain of successful operations over such Series, whenever x0, dx and
\* the axis are all present the axis is x0 + i * dx, so that get_epoch of
\* a TimeSeriesBase is the first of its get_times.
C30_AxisAgrees == \A ts \in HeldTimeSeries : AxisAgrees(ts)

====
